---- MODULE Spec2Model ----
(***************************************************************************)
(* Passphrase key store of bonedaddy/oht (package crypto,                  *)
(* key_store_passphrase.go): StoreKey / GetKey / DeleteKey / Cleanup over  *)
(* a directory of JSON key files, with the version-3 envelope              *)
(* (aes-128-ctr, scrypt or pbkdf2, sha3 MAC).                              *)
(*                                                                         *)
(* Bytes are the integers 0..255, byte strings and texts are sequences of  *)
(* them (a text holds character codes).  The cryptographic primitives are  *)
(* ideal: the KDFs and the hash are deterministic and collision-free on    *)
(* the inputs the model draws, the cipher is a keystream XOR.              *)
(***************************************************************************)
EXTENDS Integers, Sequences, FiniteSets, TLC

(***************************************************************************)
(* Constants of the source.                                                *)
(***************************************************************************)
KDFStandard == 1
KDFLight == 2
stdScryptN == 262144
stdScryptP == 1
lightScryptN == 4096
lightScryptP == 6
scryptR == 8
scryptDKLen == 32
version == 3
aesBlockSize == 16

ErrNil == "nil"

(***************************************************************************)
(* Byte helpers.                                                           *)
(***************************************************************************)
RECURSIVE BitXor(_, _)
BitXor(a, b) ==
    IF a = 0 THEN b
    ELSE IF b = 0 THEN a
    ELSE (((a % 2) + (b % 2)) % 2) + 2 * BitXor(a \div 2, b \div 2)

RECURSIVE Pow2(_)
Pow2(k) == IF k = 0 THEN 1 ELSE 2 * Pow2(k - 1)

RECURSIVE SumTo(_, _)
SumTo(s, n) == IF n = 0 THEN 0 ELSE (SumTo(s, n - 1) + s[n]) % 256

RECURSIVE WSumTo(_, _)
WSumTo(s, n) == IF n = 0 THEN 0 ELSE (WSumTo(s, n - 1) + n * s[n]) % 256

\* a three-byte digest of a byte string: its length, sum and weighted sum
Digest3(s) == << Len(s) % 256, SumTo(s, Len(s)), WSumTo(s, Len(s)) >>

Bytes3(x) == << (x \div 65536) % 256, (x \div 256) % 256, x % 256 >>

RECURSIVE IsPow2(_)
IsPow2(n) == IF n = 1 THEN TRUE ELSE IF n < 1 \/ n % 2 = 1 THEN FALSE ELSE IsPow2(n \div 2)

(***************************************************************************)
(* encoding/hex.                                                           *)
(***************************************************************************)
hextable == << 48, 49, 50, 51, 52, 53, 54, 55, 56, 57, 97, 98, 99, 100, 101, 102 >>

\* the sequence f[1], ..., f[n], its elements computed once
Tuple(f, n) == SubSeq(f, 1, n)

EncodeToString(b) ==
    Tuple([ i \in 1..(2 * Len(b)) |->
              IF i % 2 = 1 THEN hextable[(b[(i + 1) \div 2] \div 16) + 1]
                           ELSE hextable[(b[i \div 2] % 16) + 1] ], 2 * Len(b))

fromHexChar(c) ==
    IF c >= 48 /\ c <= 57 THEN c - 48
    ELSE IF c >= 97 /\ c <= 102 THEN c - 87
    ELSE IF c >= 65 /\ c <= 70 THEN c - 55
    ELSE -1

DecodeString(s) ==
    IF Len(s) % 2 = 1 \/ \E i \in 1..Len(s) : fromHexChar(s[i]) = -1
    THEN [ err |-> "HexDecode", bytes |-> << >> ]
    ELSE [ err |-> ErrNil,
           bytes |-> Tuple([ i \in 1..(Len(s) \div 2) |->
                               16 * fromHexChar(s[2 * i - 1]) + fromHexChar(s[2 * i]) ],
                           Len(s) \div 2) ]

(***************************************************************************)
(* github.com/pborman/uuid: String and Parse (a nil UUID is << >>).        *)
(***************************************************************************)
uuidString(u) ==
    IF Len(u) # 16 THEN << >>
    ELSE LET h == EncodeToString(u)
         IN  SubSeq(h, 1, 8) \o << 45 >> \o SubSeq(h, 9, 12) \o << 45 >>
             \o SubSeq(h, 13, 16) \o << 45 >> \o SubSeq(h, 17, 20) \o << 45 >>
             \o SubSeq(h, 21, 32)

uuidParse(s) ==
    IF Len(s) # 36 THEN << >>
    ELSE IF s[9] # 45 \/ s[14] # 45 \/ s[19] # 45 \/ s[24] # 45 THEN << >>
    ELSE LET d == DecodeString(SubSeq(s, 1, 8) \o SubSeq(s, 10, 13) \o SubSeq(s, 15, 18)
                               \o SubSeq(s, 20, 23) \o SubSeq(s, 25, 36))
         IN  IF d.err # ErrNil THEN << >> ELSE d.bytes

(***************************************************************************)
(* The private key as bytes: the big-endian scalar without leading zeros.  *)
(* A nil *ecdsa.PrivateKey is << >>, a key with scalar D is << D >>.       *)
(***************************************************************************)
RECURSIVE BigBytes(_)
BigBytes(d) == IF d = 0 THEN << >> ELSE Append(BigBytes(d \div 256), d % 256)

RECURSIVE BigD(_, _)
BigD(b, n) == IF n = 0 THEN 0 ELSE 256 * BigD(b, n - 1) + b[n]

FromECDSA(prv) == IF prv = << >> THEN << >> ELSE BigBytes(prv[1])

ToECDSA(b) == IF Len(b) = 0 THEN << >> ELSE << BigD(b, Len(b)) >>

(***************************************************************************)
(* Ideal primitives.                                                       *)
(***************************************************************************)
\* A derived key is a sequence of 16-byte blocks: the block number, the KDF,
\* and digests of the password, the salt and the cost parameters.

KDFStream(kdfId, password, salt, cost, r, p, keyLen) ==
    LET tail == Digest3(password) \o Digest3(salt) \o Bytes3(cost)
                \o << r % 256, p % 256, 0, 0, 0 >>
    IN  Tuple([ i \in 1..keyLen |->
                  IF i % 16 = 1 THEN ((i - 1) \div 16) + 1
                  ELSE IF i % 16 = 2 THEN kdfId
                  ELSE tail[((i - 1) % 16) - 1] ], keyLen)

\* golang.org/x/crypto/scrypt.Key
scryptKey(password, salt, N, r, p, keyLen) ==
    IF N <= 1 \/ ~IsPow2(N) \/ r <= 0 \/ p <= 0
    THEN [ err |-> "ScryptParams", key |-> << >> ]
    ELSE [ err |-> ErrNil, key |-> KDFStream(1, password, salt, N, r, p, keyLen) ]

\* golang.org/x/crypto/pbkdf2.Key with sha256
pbkdf2Key(password, salt, iter, keyLen) ==
    KDFStream(2, password, salt, iter, 0, 0, keyLen)

\* Sha3(data...): 32 bytes, collision-free on inputs shorter than 32 bytes
Sha3(a, b) ==
    LET d == a \o b
    IN  Tuple([ i \in 1..32 |-> IF i = 32 THEN Len(d) % 256
                                ELSE IF i <= Len(d) THEN d[i] ELSE 0 ], 32)

\* aesCTRXOR: XOR of the input with the keystream of (key, iv)
aesCTRXOR(key, inText, iv) ==
    IF Len(key) \notin { 16, 24, 32 } THEN [ err |-> "InvalidKeySize", out |-> << >> ]
    ELSE IF Len(iv) # aesBlockSize THEN [ err |-> "InvalidIV", out |-> << >> ]
    ELSE LET k == (SumTo(key, Len(key)) + 3 * WSumTo(iv, Len(iv))) % 256
         IN  [ err |-> ErrNil,
               out |-> Tuple([ j \in 1..Len(inText) |->
                                 BitXor(inText[j], (k + 7 * j) % 256) ], Len(inText)) ]

(***************************************************************************)
(* The key store instance.                                                 *)
(***************************************************************************)
\* mutant of NewKeyStorePassphrase: the two profiles the wrong way round
NewKeyStorePassphraseSwapped(path, safety) ==
    IF safety = KDFLight
    THEN [ keysDirPath |-> path, scryptN |-> stdScryptN, scryptP |-> stdScryptP,
           scryptR |-> scryptR, scryptDKLen |-> scryptDKLen ]
    ELSE [ keysDirPath |-> path, scryptN |-> lightScryptN, scryptP |-> lightScryptP,
           scryptR |-> scryptR, scryptDKLen |-> scryptDKLen ]

NewKeyStorePassphrase(path, safety) ==
    IF safety = KDFStandard
    THEN [ keysDirPath |-> path, scryptN |-> stdScryptN, scryptP |-> stdScryptP,
           scryptR |-> scryptR, scryptDKLen |-> scryptDKLen ]
    ELSE [ keysDirPath |-> path, scryptN |-> lightScryptN, scryptP |-> lightScryptP,
           scryptR |-> scryptR, scryptDKLen |-> scryptDKLen ]

(***************************************************************************)
(* The storage collaborator: a directory holds at most one JSON document   *)
(* per address.  A document is a function from the member names present to *)
(* their values; disk is a function from << path, address >> to documents. *)
(***************************************************************************)
FileKey(keysDirPath, keyAddr) == << keysDirPath, keyAddr >>

Member(doc, k, zero) == IF k \in DOMAIN doc THEN doc[k] ELSE zero

\* a text can stand between the quotes of a JSON string as it is
RawJSONText(s) == \A i \in 1..Len(s) : s[i] >= 32 /\ s[i] # 34 /\ s[i] # 92

TextsOf(doc) ==
    LET c  == Member(doc, "crypto", << >>)
        cp == Member(c, "cipherparams", << >>)
        kp == Member(c, "kdfparams", << >>)
    IN  { Member(doc, "address", << >>), Member(doc, "id", << >>),
          Member(c, "ciphertext", << >>), Member(c, "mac", << >>),
          Member(cp, "iv", << >>), Member(kp, "salt", << >>) }

\* json.Unmarshal into encryptedKeyJSON: a member that is absent leaves the zero value
Unmarshal(doc) ==
    LET c  == Member(doc, "crypto", << >>)
        cp == Member(c, "cipherparams", << >>)
    IN  [ Address |-> Member(doc, "address", << >>),
          Crypto  |-> [ Cipher       |-> Member(c, "cipher", ""),
                        CipherText   |-> Member(c, "ciphertext", << >>),
                        CipherParams |-> [ IV |-> Member(cp, "iv", << >>) ],
                        KDF          |-> Member(c, "kdf", ""),
                        KDFParams    |-> Member(c, "kdfparams", << >>),
                        MAC          |-> Member(c, "mac", << >>) ],
          Id      |-> Member(doc, "id", << >>),
          Version |-> Member(doc, "version", 0) ]

ZeroKeyJSON == Unmarshal(<< >>)

\* the five members no envelope may lack
Required(doc) ==
    /\ { "version", "id", "address", "crypto" } \subseteq DOMAIN doc
    /\ { "cipher", "kdf" } \subseteq DOMAIN doc.crypto

\* getKey: read the file of the address and decode it; a text that is no JSON
\* and an envelope that lacks a required member are malformed
getKey(disk, keysDirPath, keyAddr) ==
    IF FileKey(keysDirPath, keyAddr) \notin DOMAIN disk
    THEN [ err |-> "FileNotFound", k |-> ZeroKeyJSON, stages |-> << >> ]
    ELSE LET doc == disk[FileKey(keysDirPath, keyAddr)]
         IN  IF \E t \in TextsOf(doc) : ~RawJSONText(t)
             THEN [ err |-> "MalformedEnvelope", k |-> ZeroKeyJSON,
                    stages |-> << "FileRead" >> ]
             ELSE IF ~Required(doc)
             THEN [ err |-> "MalformedEnvelope", k |-> Unmarshal(doc),
                    stages |-> << "FileRead" >> ]
             ELSE [ err |-> ErrNil, k |-> Unmarshal(doc),
                    stages |-> << "FileRead", "EnvelopeParsed" >> ]

writeKeyFile(disk, addr, keysDirPath, content) ==
    [ f \in DOMAIN disk \cup { FileKey(keysDirPath, addr) } |->
        IF f = FileKey(keysDirPath, addr) THEN content ELSE disk[f] ]

deleteKey(disk, keysDirPath, keyAddr) ==
    [ f \in DOMAIN disk \ { FileKey(keysDirPath, keyAddr) } |-> disk[f] ]

cleanup(disk, keysDirPath, keyAddr) ==
    [ f \in DOMAIN disk \ { FileKey(keysDirPath, keyAddr) } |-> disk[f] ]

getKeyAddresses(disk, keysDirPath) ==
    { f[2] : f \in { g \in DOMAIN disk : g[1] = keysDirPath } }

(***************************************************************************)
(* StoreKey up to the write: the envelope for key under auth, with the     *)
(* salt and the iv the random source gave.                                 *)
(***************************************************************************)
EncryptKey(ks, key, auth, salt, iv) ==
    LET derived == scryptKey(auth, salt, ks.scryptN, ks.scryptR, ks.scryptP, ks.scryptDKLen)
    IN  IF derived.err # ErrNil THEN [ err |-> derived.err, keyJSON |-> << >> ]
        ELSE
        LET derivedKey == derived.key
            encryptKey == SubSeq(derivedKey, 1, 16)
            keyBytes   == FromECDSA(key.PrivateKey)
            ct         == aesCTRXOR(encryptKey, keyBytes, iv)
        IN  IF ct.err # ErrNil THEN [ err |-> ct.err, keyJSON |-> << >> ]
            ELSE
            LET cipherText == ct.out
                mac == Sha3(SubSeq(derivedKey, 17, 32), cipherText)
                scryptParamsJSON ==
                    [ n |-> ks.scryptN, r |-> ks.scryptR, p |-> ks.scryptP,
                      dklen |-> ks.scryptDKLen, salt |-> EncodeToString(salt) ]
                cryptoStruct ==
                    [ cipher |-> "aes-128-ctr",
                      ciphertext |-> EncodeToString(cipherText),
                      cipherparams |-> [ iv |-> EncodeToString(iv) ],
                      kdf |-> "scrypt",
                      kdfparams |-> scryptParamsJSON,
                      mac |-> EncodeToString(mac) ]
            IN  [ err |-> ErrNil,
                  keyJSON |-> [ address |-> EncodeToString(key.Address),
                                crypto  |-> cryptoStruct,
                                id      |-> uuidString(key.Id),
                                version |-> version ] ]

(***************************************************************************)
(* Retrieval.  A result carries the stages passed, in order.               *)
(***************************************************************************)
\* x is << >> for a missing map entry and << v >> for a number
ensureInt(x) ==
    IF x = << >> THEN [ panic |-> TRUE, res |-> 0 ] ELSE [ panic |-> FALSE, res |-> x[1] ]

MapGet(m, k) == IF k \in DOMAIN m THEN << m[k] >> ELSE << >>

KDFFail(e) == [ err |-> e, key |-> << >> ]

getKDFKey(cryptoJSON, auth) ==
    LET P == cryptoJSON.KDFParams
    IN  IF "salt" \notin DOMAIN P THEN KDFFail("panic")
        ELSE
        LET salt == DecodeString(P["salt"])
        IN  IF salt.err # ErrNil THEN KDFFail(salt.err)
            ELSE
            LET dkLen == ensureInt(MapGet(P, "dklen"))
            IN  IF dkLen.panic THEN KDFFail("panic")
                ELSE IF cryptoJSON.KDF = "scrypt" THEN
                    LET n == ensureInt(MapGet(P, "n"))
                        r == ensureInt(MapGet(P, "r"))
                        p == ensureInt(MapGet(P, "p"))
                    IN  IF n.panic \/ r.panic \/ p.panic THEN KDFFail("panic")
                        ELSE scryptKey(auth, salt.bytes, n.res, r.res, p.res, dkLen.res)
                ELSE IF cryptoJSON.KDF = "pbkdf2" THEN
                    LET c == ensureInt(MapGet(P, "c"))
                    IN  IF c.panic \/ "prf" \notin DOMAIN P THEN KDFFail("panic")
                        ELSE IF P["prf"] # "hmac-sha256" THEN KDFFail("UnsupportedPRF")
                        ELSE [ err |-> ErrNil,
                               key |-> pbkdf2Key(auth, salt.bytes, c.res, dkLen.res) ]
                ELSE KDFFail("UnsupportedKDF")

\* mutants of bytesEqual: every pair is equal; the first 16 bytes decide
bytesEqualAlways(a, b) == TRUE

bytesEqualPrefix(a, b) == SubSeq(a, 1, 16) = SubSeq(b, 1, 16)

\* bytes.Equal
bytesEqual(a, b) == a = b

Fail(e, st) == [ keyBytes |-> << >>, keyId |-> << >>, err |-> e, stages |-> st ]

\* mutant of decryptKey: the version and the cipher are checked after the key
\* derivation and the MAC
decryptKeyLateChecks(keyProtected, auth) ==
    LET keyId      == uuidParse(keyProtected.Id)
        mac        == DecodeString(keyProtected.Crypto.MAC)
        iv         == DecodeString(keyProtected.Crypto.CipherParams.IV)
        cipherText == DecodeString(keyProtected.Crypto.CipherText)
    IN  IF mac.err # ErrNil THEN Fail(mac.err, << >>)
        ELSE IF iv.err # ErrNil THEN Fail(iv.err, << >>)
        ELSE IF cipherText.err # ErrNil THEN Fail(cipherText.err, << >>)
        ELSE
        LET derived == getKDFKey(keyProtected.Crypto, auth)
        IN  IF derived.err # ErrNil THEN Fail(derived.err, << >>)
            ELSE
            LET derivedKey    == derived.key
                calculatedMAC == Sha3(SubSeq(derivedKey, 17, 32), cipherText.bytes)
            IN  IF ~bytesEqual(calculatedMAC, mac.bytes)
                THEN Fail("MACMismatch", << "KDFDerived" >>)
                ELSE IF keyProtected.Version # version
                THEN Fail("UnsupportedVersion", << "KDFDerived", "MACVerified" >>)
                ELSE IF keyProtected.Crypto.Cipher # "aes-128-ctr"
                THEN Fail("UnsupportedCipher",
                          << "KDFDerived", "MACVerified", "VersionChecked" >>)
                ELSE
                LET plainText == aesCTRXOR(SubSeq(derivedKey, 1, 16), cipherText.bytes, iv.bytes)
                IN  IF plainText.err # ErrNil
                    THEN Fail(plainText.err, << "KDFDerived", "MACVerified",
                                                "VersionChecked", "CipherChecked" >>)
                    ELSE [ keyBytes |-> plainText.out, keyId |-> keyId, err |-> ErrNil,
                           stages |-> << "KDFDerived", "MACVerified", "VersionChecked",
                                         "CipherChecked", "Decrypted" >> ]

decryptKey(keyProtected, auth) ==
    IF keyProtected.Version # version THEN Fail("UnsupportedVersion", << >>)
    ELSE IF keyProtected.Crypto.Cipher # "aes-128-ctr"
    THEN Fail("UnsupportedCipher", << "VersionChecked" >>)
    ELSE
    LET st2        == << "VersionChecked", "CipherChecked" >>
        keyId      == uuidParse(keyProtected.Id)
        mac        == DecodeString(keyProtected.Crypto.MAC)
        iv         == DecodeString(keyProtected.Crypto.CipherParams.IV)
        cipherText == DecodeString(keyProtected.Crypto.CipherText)
    IN  IF mac.err # ErrNil THEN Fail(mac.err, st2)
        ELSE IF iv.err # ErrNil THEN Fail(iv.err, st2)
        ELSE IF cipherText.err # ErrNil THEN Fail(cipherText.err, st2)
        ELSE
        LET derived == getKDFKey(keyProtected.Crypto, auth)
        IN  IF derived.err # ErrNil THEN Fail(derived.err, st2)
            ELSE
            LET derivedKey    == derived.key
                st3           == Append(st2, "KDFDerived")
                calculatedMAC == Sha3(SubSeq(derivedKey, 17, 32), cipherText.bytes)
            IN  IF ~bytesEqual(calculatedMAC, mac.bytes) THEN Fail("MACMismatch", st3)
                ELSE
                LET st4       == Append(st3, "MACVerified")
                    plainText == aesCTRXOR(SubSeq(derivedKey, 1, 16), cipherText.bytes, iv.bytes)
                IN  IF plainText.err # ErrNil THEN Fail(plainText.err, st4)
                    ELSE [ keyBytes |-> plainText.out, keyId |-> keyId, err |-> ErrNil,
                           stages |-> Append(st4, "Decrypted") ]

\* mutant of decryptKeyFromFile: what getKey returns goes to decryptKey whether
\* or not getKey reported an error
decryptKeyFromFileUnchecked(disk, keysDirPath, keyAddr, auth) ==
    LET k == getKey(disk, keysDirPath, keyAddr)
        d == decryptKey(k.k, auth)
    IN  [ d EXCEPT !.stages = << "FileRead", "EnvelopeParsed" >> \o d.stages ]

decryptKeyFromFile(disk, keysDirPath, keyAddr, auth) ==
    LET m == getKey(disk, keysDirPath, keyAddr)
    IN  IF m.err # ErrNil THEN Fail(m.err, m.stages)
        ELSE
        LET k == getKey(disk, keysDirPath, keyAddr)
        IN  IF k.err # ErrNil THEN Fail(k.err, k.stages)
            ELSE LET d == decryptKey(k.k, auth)
                 IN  [ d EXCEPT !.stages = k.stages \o d.stages ]

(***************************************************************************)
(* The values the model draws from.                                        *)
(***************************************************************************)
KeysDir == "keys"

Instances == { "standard", "light" }

Selector(i) == IF i = "standard" THEN KDFStandard ELSE KDFLight

Fill(n, b) == Tuple([ i \in 1..n |-> b ], n)

AddrA == Fill(20, 170)
AddrB == Fill(20, 187)
Addresses == { AddrA, AddrB }

\* two keys of address A (a one-byte and a two-byte scalar), one of address B
KeyA1 == [ Id |-> Fill(16, 17), Address |-> AddrA, PrivateKey |-> << 17 >> ]
KeyA2 == [ Id |-> Fill(16, 34), Address |-> AddrA, PrivateKey |-> << 4351 >> ]
KeyB1 == [ Id |-> Fill(16, 51), Address |-> AddrB, PrivateKey |-> << 4351 >> ]
Keys == { KeyA1, KeyA2, KeyB1 }

\* "p1" and "p2"
Pass1 == << 112, 49 >>
Pass2 == << 112, 50 >>
Passphrases == { Pass1, Pass2 }

\* what the random source can give in one StoreKey: NumDraws different
\* pairs of a 32-byte salt and a 16-byte iv
NumDraws == 2
Draws == { [ salt |-> Fill(32, j), iv |-> Fill(aesBlockSize, 6 + j) ] : j \in 1..NumDraws }

NoKey == << >>

(***************************************************************************)
(* Documents other programs put in the directory.                          *)
(***************************************************************************)
Put(doc, k, v) == [ x \in DOMAIN doc \cup { k } |-> IF x = k THEN v ELSE doc[x] ]

Del(doc, k) == [ x \in DOMAIN doc \ { k } |-> doc[x] ]

RECURSIVE PutPath(_, _, _)
PutPath(doc, path, v) ==
    IF Len(path) = 1 THEN Put(doc, path[1], v)
    ELSE Put(doc, path[1], PutPath(doc[path[1]], Tail(path), v))

RECURSIVE DelPath(_, _)
DelPath(doc, path) ==
    IF Len(path) = 1 THEN Del(doc, path[1])
    ELSE Put(doc, path[1], DelPath(doc[path[1]], Tail(path)))

RECURSIVE GetPath(_, _)
GetPath(doc, path) ==
    IF Len(path) = 0 THEN doc ELSE GetPath(doc[path[1]], Tail(path))

\* a version-3 envelope with kdf pbkdf2, as another wallet writes it
Pbkdf2Envelope(key, auth, salt, iv) ==
    LET derivedKey == pbkdf2Key(auth, salt, 262144, 32)
        cipherText == aesCTRXOR(SubSeq(derivedKey, 1, 16), FromECDSA(key.PrivateKey), iv).out
        mac        == Sha3(SubSeq(derivedKey, 17, 32), cipherText)
    IN  [ address |-> EncodeToString(key.Address),
          crypto  |-> [ cipher |-> "aes-128-ctr",
                        ciphertext |-> EncodeToString(cipherText),
                        cipherparams |-> [ iv |-> EncodeToString(iv) ],
                        kdf |-> "pbkdf2",
                        kdfparams |-> [ c |-> 262144, dklen |-> 32, prf |-> "hmac-sha256",
                                        salt |-> EncodeToString(salt) ],
                        mac |-> EncodeToString(mac) ],
          id      |-> uuidString(key.Id),
          version |-> 3 ]

\* where a member of the envelope is in the document
MemberPath(field, doc) ==
    CASE field = "version" -> << "version" >>
      [] field = "id"      -> << "id" >>
      [] field = "address" -> << "address" >>
      [] field = "cipher"  -> << "crypto", "cipher" >>
      [] field = "kdf"     -> << "crypto", "kdf" >>
      [] field = "mac"     -> << "crypto", "mac" >>
      [] field = "ciphertext" -> << "crypto", "ciphertext" >>
      [] field = "salt"    -> << "crypto", "kdfparams", "salt" >>
      [] field = "dklen"   -> << "crypto", "kdfparams", "dklen" >>
      [] field = "prf"     -> << "crypto", "kdfparams", "prf" >>
      [] field = "cost"    -> << "crypto", "kdfparams",
                                 IF doc.crypto.kdf = "scrypt" THEN "n" ELSE "c" >>

\* "zz": no hex text
NotHex == << 122, 122 >>

WrongValue(field) ==
    CASE field = "version" -> 2
      [] field = "cipher"  -> "aes-256-ctr"
      [] field = "kdf"     -> "bcrypt"
      [] field = "prf"     -> "hmac-sha512"
      [] field = "salt"    -> NotHex
      [] field = "mac"     -> NotHex

\* an alteration is << field, "absent" >> or << field, "wrong" >>
Alterations(doc) ==
    ({ "version", "id", "address", "cipher", "kdf", "mac", "salt", "dklen", "cost" }
        \X { "absent" })
    \cup ({ "version", "cipher", "kdf", "mac", "salt" } \X { "wrong" })
    \cup (IF doc.crypto.kdf = "pbkdf2" THEN { "prf" } \X { "absent", "wrong" } ELSE { })

Alter1(doc, alt, base) ==
    IF alt[2] = "absent" THEN DelPath(doc, MemberPath(alt[1], base))
    ELSE PutPath(doc, MemberPath(alt[1], base), WrongValue(alt[1]))

RECURSIVE AlterFrom(_, _, _)
AlterFrom(doc, alts, base) ==
    IF alts = { } THEN doc
    ELSE LET alt == CHOOSE x \in alts : TRUE
         IN  Alter1(AlterFrom(doc, alts \ { alt }, base), alt, base)

Alter(base, alts) == AlterFrom(base, alts, base)

\* at most MaxAlterations alterations, of different members
MaxAlterations == 2

AlterationSets(doc) ==
    { S \in SUBSET Alterations(doc) :
        /\ Cardinality(S) <= MaxAlterations
        /\ \A x, y \in S : x[1] = y[1] => x = y }

(***************************************************************************)
(* The four operations as functions of the disk: what the call returns and *)
(* the disk it leaves.                                                     *)
(***************************************************************************)
File(disk, keyAddr) ==
    IF FileKey(KeysDir, keyAddr) \in DOMAIN disk THEN << disk[FileKey(KeysDir, keyAddr)] >>
    ELSE << >>

StoreKeyCall(disk, k, key, auth, salt, iv) ==
    LET e == EncryptKey(k, key, auth, salt, iv)
    IN  IF e.err # ErrNil
        THEN [ err |-> e.err, key |-> NoKey, stages |-> << >>, disk |-> disk ]
        ELSE [ err |-> ErrNil, key |-> NoKey, stages |-> << >>,
               disk |-> writeKeyFile(disk, key.Address, k.keysDirPath, e.keyJSON) ]

\* mutant of GetKeyCall: the id read from the file is dropped
GetKeyCallNoId(disk, k, keyAddr, auth) ==
    LET d == decryptKeyFromFile(disk, k.keysDirPath, keyAddr, auth)
    IN  IF d.err = ErrNil
        THEN [ err |-> ErrNil,
               key |-> << [ Id |-> << >>, Address |-> keyAddr,
                            PrivateKey |-> ToECDSA(d.keyBytes) ] >>,
               stages |-> d.stages, disk |-> disk ]
        ELSE [ err |-> d.err, key |-> NoKey, stages |-> d.stages, disk |-> disk ]

\* mutant of GetKeyCall: the key is derived with the scrypt parameters of the
\* instance, not those of the file
GetKeyCallOwnProfile(disk, k, keyAddr, auth) ==
    LET f  == FileKey(k.keysDirPath, keyAddr)
        own == IF f \in DOMAIN disk /\ "crypto" \in DOMAIN disk[f]
                  /\ "kdfparams" \in DOMAIN disk[f].crypto
               THEN [ disk EXCEPT ![f] =
                        PutPath(PutPath(@, << "crypto", "kdfparams", "n" >>, k.scryptN),
                                << "crypto", "kdfparams", "p" >>, k.scryptP) ]
               ELSE disk
        d  == decryptKeyFromFile(own, k.keysDirPath, keyAddr, auth)
    IN  IF d.err = ErrNil
        THEN [ err |-> ErrNil,
               key |-> << [ Id |-> d.keyId, Address |-> keyAddr,
                            PrivateKey |-> ToECDSA(d.keyBytes) ] >>,
               stages |-> d.stages, disk |-> disk ]
        ELSE [ err |-> d.err, key |-> NoKey, stages |-> d.stages, disk |-> disk ]

GetKeyCall(disk, k, keyAddr, auth) ==
    LET d == decryptKeyFromFile(disk, k.keysDirPath, keyAddr, auth)
    IN  IF d.err = ErrNil
        THEN [ err |-> ErrNil,
               key |-> << [ Id |-> d.keyId, Address |-> keyAddr,
                            PrivateKey |-> ToECDSA(d.keyBytes) ] >>,
               stages |-> d.stages, disk |-> disk ]
        ELSE [ err |-> d.err, key |-> NoKey, stages |-> d.stages, disk |-> disk ]

\* mutant of DeleteKeyCall: the file is removed whatever decryption says
DeleteKeyCallUngated(disk, k, keyAddr, auth) ==
    LET d == decryptKeyFromFile(disk, k.keysDirPath, keyAddr, auth)
    IN  [ err |-> d.err, key |-> NoKey, stages |-> d.stages,
          disk |-> deleteKey(disk, k.keysDirPath, keyAddr) ]

DeleteKeyCall(disk, k, keyAddr, auth) ==
    LET d == decryptKeyFromFile(disk, k.keysDirPath, keyAddr, auth)
    IN  IF d.err # ErrNil
        THEN [ err |-> d.err, key |-> NoKey, stages |-> d.stages, disk |-> disk ]
        ELSE [ err |-> ErrNil, key |-> NoKey, stages |-> d.stages,
               disk |-> deleteKey(disk, k.keysDirPath, keyAddr) ]

CleanupCall(disk, k, keyAddr) ==
    [ err |-> ErrNil, key |-> NoKey, stages |-> << >>,
      disk |-> cleanup(disk, k.keysDirPath, keyAddr) ]

VARIABLES
    ks,       \* the instances: instance -> keyStorePassphrase
    files,    \* the disk: << path, address >> -> JSON document
    written,  \* history: who wrote each file, the key and passphrase it was
              \* made for, the document as made, and what was altered since
    last,     \* the last call: its arguments, what it returned, the stages it
              \* passed, whether the file was there before, and its history then
    calls     \* the calls in progress when calls run step by step: thread -> call

vars == << ks, files, written, last, calls >>

Result(op, i, a, auth, err, key, stages, before, was) ==
    [ op |-> op, inst |-> i, addr |-> a, auth |-> auth, err |-> err, key |-> key,
      stages |-> stages, before |-> before, was |-> was ]

Before(a) == FileKey(KeysDir, a) \in DOMAIN files

Was(a) == IF FileKey(KeysDir, a) \in DOMAIN written THEN << written[FileKey(KeysDir, a)] >> ELSE << >>

Note(w, a, by, i, key, auth, kdf, alts) ==
    [ f \in DOMAIN w \cup { FileKey(KeysDir, a) } |->
        IF f = FileKey(KeysDir, a)
        THEN [ by |-> by, inst |-> i, key |-> key, auth |-> auth, kdf |-> kdf, alts |-> alts ]
        ELSE w[f] ]

Forget(w, a) == [ f \in DOMAIN w \ { FileKey(KeysDir, a) } |-> w[f] ]

Threads == { "t1", "t2" }

Idle ==
    [ pc |-> "idle", op |-> "none", inst |-> "light", addr |-> AddrA, auth |-> << >>,
      key |-> << >>, draw |-> << >>, k |-> << >>, err |-> ErrNil, ret |-> NoKey,
      alone |-> << >>, same |-> TRUE, touched |-> { } ]

Init ==
    /\ ks = [ i \in Instances |-> NewKeyStorePassphrase(KeysDir, Selector(i)) ]
    /\ files = << >>
    /\ written = << >>
    /\ last = Result("none", "standard", AddrA, << >>, ErrNil, NoKey, << >>, FALSE, << >>)
    /\ calls = [ t \in Threads |-> Idle ]

(***************************************************************************)
(* The operations of the key store, each call as one step.                 *)
(***************************************************************************)
StoreKey(i, key, auth) ==
    \E draw \in Draws :
        \E c \in { StoreKeyCall(files, ks[i], key, auth, draw.salt, draw.iv) } :
            /\ files' = c.disk
            /\ written' = IF c.err = ErrNil
                          THEN Note(written, key.Address, "StoreKey", i, key, auth, "scrypt", { })
                          ELSE written
            /\ last' = Result("StoreKey", i, key.Address, auth, c.err, << key >>, << >>,
                              FALSE, << >>)
            /\ UNCHANGED << ks, calls >>

GetKey(i, keyAddr, auth) ==
    \E c \in { GetKeyCall(files, ks[i], keyAddr, auth) } :
        /\ files' = c.disk
        /\ last' = Result("GetKey", i, keyAddr, auth, c.err, c.key, c.stages,
                          Before(keyAddr), Was(keyAddr))
        /\ UNCHANGED << ks, written, calls >>

DeleteKey(i, keyAddr, auth) ==
    \E c \in { DeleteKeyCall(files, ks[i], keyAddr, auth) } :
        /\ files' = c.disk
        /\ written' = [ f \in DOMAIN c.disk |-> written[f] ]
        /\ last' = Result("DeleteKey", i, keyAddr, auth, c.err, NoKey, c.stages,
                          Before(keyAddr), Was(keyAddr))
        /\ UNCHANGED << ks, calls >>

Cleanup(i, keyAddr) ==
    \E c \in { CleanupCall(files, ks[i], keyAddr) } :
        /\ files' = c.disk
        /\ written' = [ f \in DOMAIN c.disk |-> written[f] ]
        /\ last' = Result("Cleanup", i, keyAddr, << >>, c.err, NoKey, << >>, FALSE, << >>)
        /\ UNCHANGED << ks, calls >>

(***************************************************************************)
(* What happens to the directory from outside.                             *)
(***************************************************************************)
\* another wallet stores key under auth as a pbkdf2 envelope
ImportKey(key, auth) ==
    \E draw \in Draws :
        \E doc \in { Pbkdf2Envelope(key, auth, draw.salt, draw.iv) } :
            /\ files' = writeKeyFile(files, key.Address, KeysDir, doc)
            /\ written' = Note(written, key.Address, "Import", "standard", key, auth, "pbkdf2", { })
            /\ last' = Result("ImportKey", "standard", key.Address, auth, ErrNil, << key >>,
                              << >>, FALSE, << >>)
            /\ UNCHANGED << ks, calls >>

\* a document that is an envelope of key under auth but for the alterations
PutForeign(key, auth, base, alts) ==
    /\ FileKey(KeysDir, key.Address) \notin DOMAIN files
    /\ files' = writeKeyFile(files, key.Address, KeysDir, Alter(base, alts))
    /\ written' = Note(written, key.Address, "Foreign", "standard", key, auth, base.crypto.kdf, alts)
    /\ last' = Result("PutForeign", "standard", key.Address, auth, ErrNil, << key >>,
                      << >>, FALSE, << >>)
    /\ UNCHANGED << ks, calls >>

ForeignBases(key, auth) ==
    { EncryptKey(NewKeyStorePassphrase(KeysDir, KDFLight), key, auth, Fill(32, 1),
                 Fill(aesBlockSize, 7)).keyJSON,
      Pbkdf2Envelope(key, auth, Fill(32, 1), Fill(aesBlockSize, 7)) }

\* what a changed text is to its reader: no JSON string any more ("nojson"), no
\* hex text ("nohex"), hex text of the same bytes ("case") or of other bytes ("value")
FlipClass(old, new) ==
    IF ~RawJSONText(new) THEN "nojson"
    ELSE IF DecodeString(new).err # ErrNil THEN "nohex"
    ELSE IF DecodeString(new).bytes = DecodeString(old).bytes THEN "case"
    ELSE "value"

\* one bit of the text of a member of a file StoreKey wrote flips
FlipTextBit(keyAddr, field, pos, bit) ==
    LET f    == FileKey(KeysDir, keyAddr)
        path == MemberPath(field, files[f])
        text == GetPath(files[f], path)
        flipped == [ text EXCEPT ![pos] = BitXor(@, Pow2(bit)) ]
    IN  /\ pos \in 1..Len(text)
        /\ files' = [ files EXCEPT ![f] = PutPath(@, path, flipped) ]
        /\ written' = [ written EXCEPT ![f].by = "Flip",
                                       ![f].alts = { << field, "text", FlipClass(text, flipped) >> } ]
        /\ last' = Result("FlipTextBit", "standard", keyAddr, << >>, ErrNil, NoKey, << >>,
                          FALSE, << >>)
        /\ UNCHANGED << ks, calls >>

\* one bit of the bytes a member of a file StoreKey wrote stands for flips
FlipByteBit(keyAddr, field, pos, bit) ==
    LET f     == FileKey(KeysDir, keyAddr)
        path  == MemberPath(field, files[f])
        bytes == DecodeString(GetPath(files[f], path)).bytes
    IN  /\ pos \in 1..Len(bytes)
        /\ files' = [ files EXCEPT ![f] =
                        PutPath(@, path,
                                EncodeToString([ bytes EXCEPT ![pos] = BitXor(@, Pow2(bit)) ])) ]
        /\ written' = [ written EXCEPT ![f].by = "Flip",
                                       ![f].alts = { << field, "bytes", "value" >> } ]
        /\ last' = Result("FlipByteBit", "standard", keyAddr, << >>, ErrNil, NoKey, << >>,
                          FALSE, << >>)
        /\ UNCHANGED << ks, calls >>

Intact(keyAddr) ==
    /\ FileKey(KeysDir, keyAddr) \in DOMAIN written
    /\ written[FileKey(KeysDir, keyAddr)].by = "StoreKey"

(***************************************************************************)
(* Spec: the operations, and envelopes imported from another wallet.       *)
(***************************************************************************)
Next ==
    \/ \E i \in Instances, key \in Keys, auth \in Passphrases : StoreKey(i, key, auth)
    \/ \E i \in Instances, a \in Addresses, auth \in Passphrases : GetKey(i, a, auth)
    \/ \E i \in Instances, a \in Addresses, auth \in Passphrases : DeleteKey(i, a, auth)
    \/ \E i \in Instances, a \in Addresses : Cleanup(i, a)
    \/ \E key \in { KeyA1, KeyB1 } : ImportKey(key, Pass1)

Spec == Init /\ [][Next]_vars

(***************************************************************************)
(* SpecForeign: the operations on a directory into which other programs    *)
(* put documents that are not quite envelopes.                             *)
(***************************************************************************)
NextForeign ==
    \/ \E i \in Instances, auth \in Passphrases : StoreKey(i, KeyA2, auth)
    \/ \E i \in Instances, auth \in Passphrases : GetKey(i, AddrA, auth)
    \/ \E i \in Instances, auth \in Passphrases : DeleteKey(i, AddrA, auth)
    \/ \E i \in Instances : Cleanup(i, AddrA)
    \/ \E base \in ForeignBases(KeyA1, Pass1) :
           \E alts \in AlterationSets(base) : PutForeign(KeyA1, Pass1, base, alts)

SpecForeign == Init /\ [][NextForeign]_vars

(***************************************************************************)
(* SpecTamper: a file StoreKey wrote has one bit flipped.                  *)
(***************************************************************************)
NextTamper ==
    \/ \E key \in { KeyA1, KeyA2 }, auth \in Passphrases : StoreKey("light", key, auth)
    \/ \E auth \in Passphrases : GetKey("light", AddrA, auth)
    \/ \E field \in { "ciphertext", "mac" }, pos \in 1..64, bit \in 0..7 :
           Intact(AddrA) /\ FlipTextBit(AddrA, field, pos, bit)
    \/ \E field \in { "ciphertext", "mac" }, pos \in 1..32, bit \in 0..7 :
           Intact(AddrA) /\ FlipByteBit(AddrA, field, pos, bit)

SpecTamper == Init /\ [][NextTamper]_vars

(***************************************************************************)
(* SpecConc: calls run concurrently, each a sequence of steps: GetKey and  *)
(* DeleteKey read the file twice, decrypt, and DeleteKey then removes the  *)
(* file.  The caller runs at most one call per address at a time.          *)
(***************************************************************************)
Active(c) == c.pc \notin { "idle", "done" }

Serialized(t, a) == \A u \in Threads \ { t } : Active(calls[u]) => calls[u].addr # a

\* what the call returns and the file it leaves when it runs alone from here
Alone(c, a) == [ err |-> c.err, key |-> c.key, file |-> File(c.disk, a) ]

Begin(t, pc, op, i, a, auth, key, draw, alone) ==
    /\ calls[t].pc = "idle"
    /\ Serialized(t, a)
    /\ calls' = [ calls EXCEPT ![t] =
                    [ pc |-> pc, op |-> op, inst |-> i, addr |-> a, auth |-> auth,
                      key |-> key, draw |-> draw, k |-> << >>, err |-> ErrNil, ret |-> NoKey,
                      alone |-> << alone >>, same |-> TRUE, touched |-> { } ] ]
    /\ UNCHANGED << ks, files, written, last >>

CallStoreKey(t, i, key, auth) ==
    \E draw \in Draws :
        Begin(t, "write", "StoreKey", i, key.Address, auth, << key >>, << draw >>,
              Alone(StoreKeyCall(files, ks[i], key, auth, draw.salt, draw.iv), key.Address))

CallGetKey(t, i, a, auth) ==
    Begin(t, "read1", "GetKey", i, a, auth, << >>, << >>,
          Alone(GetKeyCall(files, ks[i], a, auth), a))

CallDeleteKey(t, i, a, auth) ==
    Begin(t, "read1", "DeleteKey", i, a, auth, << >>, << >>,
          Alone(DeleteKeyCall(files, ks[i], a, auth), a))

CallCleanup(t, i, a) ==
    Begin(t, "clean", "Cleanup", i, a, << >>, << >>, << >>,
          Alone(CleanupCall(files, ks[i], a), a))

\* the call of thread t ends with err and ret, leaving disk2
Finish(t, err, ret, disk2, touch) ==
    LET c == calls[t]
    IN  /\ files' = disk2
        /\ calls' = [ calls EXCEPT ![t] =
                        [ c EXCEPT !.pc = "done", !.err = err, !.ret = ret, !.k = << >>,
                                   !.key = << >>, !.draw = << >>, !.alone = << >>,
                                   !.touched = c.touched \cup touch,
                                   !.same = /\ err = c.alone[1].err
                                            /\ ret = c.alone[1].key
                                            /\ File(disk2, c.addr) = c.alone[1].file
                                            /\ \A b \in Addresses \ { c.addr } :
                                                   File(disk2, b) = File(files, b) ] ]
        /\ UNCHANGED << ks, written, last >>

Goto(t, pc, k, touch) ==
    /\ calls' = [ calls EXCEPT ![t].pc = pc, ![t].k = k,
                               ![t].touched = calls[t].touched \cup touch ]
    /\ UNCHANGED << ks, files, written, last >>

\* decryptKeyFromFile: the first getKey, into the map m
StepRead1(t) ==
    LET c == calls[t]
        path == ks[c.inst].keysDirPath
    IN  /\ c.pc = "read1"
        /\ \E m \in { getKey(files, path, c.addr) } :
               IF m.err # ErrNil THEN Finish(t, m.err, NoKey, files, { FileKey(path, c.addr) })
               ELSE Goto(t, "read2", << >>, { FileKey(path, c.addr) })

\* decryptKeyFromFile: the second getKey, into the struct k
StepRead2(t) ==
    LET c == calls[t]
        path == ks[c.inst].keysDirPath
    IN  /\ c.pc = "read2"
        /\ \E k \in { getKey(files, path, c.addr) } :
               IF k.err # ErrNil THEN Finish(t, k.err, NoKey, files, { FileKey(path, c.addr) })
               ELSE Goto(t, "decrypt", << k.k >>, { FileKey(path, c.addr) })

\* decryptKey on what was read; GetKey returns the key, DeleteKey goes on
StepDecrypt(t) ==
    LET c == calls[t]
    IN  /\ c.pc = "decrypt"
        /\ \E d \in { decryptKey(c.k[1], c.auth) } :
               IF d.err # ErrNil THEN Finish(t, d.err, NoKey, files, { })
               ELSE IF c.op = "DeleteKey" THEN Goto(t, "remove", << >>, { })
               ELSE Finish(t, ErrNil,
                           << [ Id |-> d.keyId, Address |-> c.addr,
                                PrivateKey |-> ToECDSA(d.keyBytes) ] >>, files, { })

\* mutant of StepRemove: every file of the directory is removed
StepRemoveAll(t) ==
    LET c == calls[t]
        path == ks[c.inst].keysDirPath
    IN  /\ c.pc = "remove"
        /\ Finish(t, ErrNil, NoKey, [ f \in { g \in DOMAIN files : g[1] # path } |-> files[f] ],
                  { g \in DOMAIN files : g[1] = path })

\* DeleteKey: deleteKey after the passphrase was found correct
StepRemove(t) ==
    LET c == calls[t]
        path == ks[c.inst].keysDirPath
    IN  /\ c.pc = "remove"
        /\ Finish(t, ErrNil, NoKey, deleteKey(files, path, c.addr), { FileKey(path, c.addr) })

\* StoreKey: encrypt and write
StepWrite(t) ==
    LET c == calls[t]
    IN  /\ c.pc = "write"
        /\ \E r \in { StoreKeyCall(files, ks[c.inst], c.key[1], c.auth,
                                   c.draw[1].salt, c.draw[1].iv) } :
               Finish(t, r.err, NoKey, r.disk,
                      { FileKey(ks[c.inst].keysDirPath, c.key[1].Address) })

\* Cleanup
StepCleanup(t) ==
    LET c == calls[t]
    IN  /\ c.pc = "clean"
        /\ \E r \in { CleanupCall(files, ks[c.inst], c.addr) } :
               Finish(t, r.err, NoKey, r.disk, { FileKey(ks[c.inst].keysDirPath, c.addr) })

Return(t) ==
    /\ calls[t].pc = "done"
    /\ calls' = [ calls EXCEPT ![t] = Idle ]
    /\ UNCHANGED << ks, files, written, last >>

NextConc ==
    \/ \E t \in Threads, key \in { KeyA1, KeyB1 }, auth \in Passphrases :
           CallStoreKey(t, "light", key, auth)
    \/ \E t \in Threads, a \in Addresses, auth \in Passphrases : CallGetKey(t, "light", a, auth)
    \/ \E t \in Threads, a \in Addresses, auth \in Passphrases : CallDeleteKey(t, "light", a, auth)
    \/ \E t \in Threads, a \in Addresses : CallCleanup(t, "light", a)
    \/ \E t \in Threads : StepRead1(t)
    \/ \E t \in Threads : StepRead2(t)
    \/ \E t \in Threads : StepDecrypt(t)
    \/ \E t \in Threads : StepRemove(t)
    \/ \E t \in Threads : StepWrite(t)
    \/ \E t \in Threads : StepCleanup(t)
    \/ \E t \in Threads : Return(t)

SpecConc == Init /\ [][NextConc]_vars

(***************************************************************************)
(* The properties.                                                         *)
(***************************************************************************)
Exists(keyAddr) == FileKey(KeysDir, keyAddr) \in DOMAIN files

Retrieval == last.op \in { "GetKey", "DeleteKey" }

\* the last call was on a file in the state that `by` left it in
On(by) == last.was # << >> /\ last.was[1].by = by

Order ==
    << "FileRead", "EnvelopeParsed", "VersionChecked", "CipherChecked", "KDFDerived",
       "MACVerified", "Decrypted" >>

Altered(field) == \E x \in last.was[1].alts : x[1] = field

Absent(field) == << field, "absent" >> \in last.was[1].alts

Wrong(field) == << field, "wrong" >> \in last.was[1].alts

Mandatory == { "version", "id", "address", "cipher", "kdf" }

MissingRequired == \E m \in Mandatory : Absent(m)

\* C1: after StoreKey(k, p), by an instance of either profile, GetKey(k.address, p)
\* succeeds and returns a key with the id, the address and the private key of k.
C1_RoundTrip ==
    (last.op = "GetKey" /\ On("StoreKey") /\ last.was[1].auth = last.auth)
    => /\ last.err = ErrNil
       /\ last.key # NoKey
       /\ last.key[1].Id = last.was[1].key.Id
       /\ last.key[1].Address = last.was[1].key.Address
       /\ FromECDSA(last.key[1].PrivateKey) = FromECDSA(last.was[1].key.PrivateKey)

C1_Witness ==
    /\ last.op = "GetKey" /\ On("StoreKey") /\ last.was[1].auth = last.auth
    /\ last.was[1].inst = "standard"
    /\ last.err = ErrNil
    /\ last.key = << KeyA2 >>

\* C2: GetKey with a passphrase other than the one the key was stored with fails
\* with the MAC mismatch, returns no key, and stops before the cipher is applied.
C2_WrongPassphrase ==
    (last.op = "GetKey" /\ On("StoreKey") /\ last.was[1].auth # last.auth)
    => /\ last.err = "MACMismatch"
       /\ last.key = NoKey
       /\ last.stages = SubSeq(Order, 1, 5)

C2_Witness ==
    /\ last.op = "GetKey" /\ On("StoreKey") /\ last.was[1].auth # last.auth
    /\ last.err = "MACMismatch"

\* C3, as claimed: after one bit of the stored text of the ciphertext or the MAC
\* flipped, GetKey with the passphrase of the file fails with the MAC mismatch.
C3_AnyStoredBit ==
    (last.op = "GetKey" /\ On("Flip") /\ last.was[1].auth = last.auth
       /\ \E x \in last.was[1].alts : x[2] = "text")
    => last.err = "MACMismatch"

\* C3, amended: after one bit of the bytes of the ciphertext or the MAC flipped,
\* or one bit of their hex text such that the text is still hex text of other
\* bytes, GetKey fails with the MAC mismatch; a flipped bit of the text that only
\* changes the case of a hex letter leaves GetKey returning the key; one that
\* leaves no hex text makes it fail with the decoding error, and no key.
C3_Tamper ==
    (last.op = "GetKey" /\ On("Flip") /\ last.was[1].auth = last.auth)
    => \A x \in last.was[1].alts :
          /\ x[3] = "value" => last.err = "MACMismatch" /\ last.key = NoKey
          /\ x[3] = "case" => last.err = ErrNil /\ last.key = << last.was[1].key >>
          /\ x[3] = "nohex" => last.err = "HexDecode" /\ last.key = NoKey
          /\ x[3] = "nojson" => last.err = "MalformedEnvelope" /\ last.key = NoKey

C3_Witness ==
    /\ last.op = "GetKey" /\ On("Flip") /\ last.was[1].auth = last.auth
    /\ << "ciphertext", "bytes", "value" >> \in last.was[1].alts
    /\ last.err = "MACMismatch"

\* C4: DeleteKey returns what decrypting the file with the passphrase returns;
\* when that is an error the disk is as before, and only when it is none is the
\* file of the address, and nothing else, removed.
C4_Step ==
    last'.op = "DeleteKey" =>
        LET d == decryptKeyFromFile(files, KeysDir, last'.addr, last'.auth)
        IN  /\ last'.err = d.err
            /\ d.err # ErrNil => files' = files
            /\ d.err = ErrNil =>
                   /\ FileKey(KeysDir, last'.addr) \notin DOMAIN files'
                   /\ \A b \in Addresses \ { last'.addr } : File(files', b) = File(files, b)

C4_State ==
    last.op = "DeleteKey" =>
        /\ last.err = ErrNil <=> (last.before /\ ~Exists(last.addr))
        /\ last.err = ErrNil <=> last.stages = Order
        /\ ~last.before => last.err = "FileNotFound"
        /\ (On("StoreKey") /\ last.was[1].auth # last.auth) => last.err = "MACMismatch"

C4_DeleteGated == [](C4_State) /\ [][C4_Step]_vars

C4_Witness ==
    /\ last.op = "DeleteKey" /\ On("StoreKey") /\ last.was[1].auth # last.auth
    /\ last.err = "MACMismatch"
    /\ Exists(last.addr)

\* C5: a retrieval passes the stages in the order FileRead, EnvelopeParsed,
\* VersionChecked, CipherChecked, KDFDerived, MACVerified, Decrypted and stops at
\* the first that fails; a version other than 3 ends it with UnsupportedVersion
\* and a cipher other than aes-128-ctr with UnsupportedCipher, before any key
\* derivation, MAC or decryption.
C5_StageOrder ==
    Retrieval =>
        /\ Len(last.stages) <= Len(Order)
        /\ last.stages = SubSeq(Order, 1, Len(last.stages))
        /\ last.err = ErrNil <=> last.stages = Order
        /\ (On("Foreign") /\ MissingRequired)
             => last.err = "MalformedEnvelope" /\ last.stages = SubSeq(Order, 1, 1)
        /\ (On("Foreign") /\ ~MissingRequired /\ Wrong("version"))
             => last.err = "UnsupportedVersion" /\ last.stages = SubSeq(Order, 1, 2)
        /\ (On("Foreign") /\ ~MissingRequired /\ ~Wrong("version") /\ Wrong("cipher"))
             => last.err = "UnsupportedCipher" /\ last.stages = SubSeq(Order, 1, 3)

C5_Witness ==
    /\ last.op = "GetKey" /\ On("Foreign")
    /\ last.was[1].alts = { << "version", "wrong" >>, << "salt", "absent" >> }
    /\ last.err = "UnsupportedVersion"

\* C6: for an envelope with version 3 and cipher aes-128-ctr, GetKey fails with
\* UnsupportedKDF when the kdf is neither scrypt nor pbkdf2, and with
\* UnsupportedPRF when the kdf is pbkdf2 and the prf is not hmac-sha256, whatever
\* else the kdfparams hold; no key is derived, no MAC compared, no key returned.
KDFMembers == { "kdf", "prf", "salt", "dklen", "cost" }

C6_KDFClosedSet ==
    (last.op = "GetKey" /\ On("Foreign") /\ \A x \in last.was[1].alts : x[1] \in KDFMembers)
    => /\ Wrong("kdf")
            => /\ last.err = "UnsupportedKDF"
               /\ last.key = NoKey
               /\ last.stages = SubSeq(Order, 1, 4)
       /\ (last.was[1].kdf = "pbkdf2" /\ ~Altered("kdf") /\ Wrong("prf"))
            => /\ last.err = "UnsupportedPRF"
               /\ last.key = NoKey
               /\ last.stages = SubSeq(Order, 1, 4)

\* C7: GetKey derives the key as the file says, whatever the profile of the
\* instance: a key stored by an instance of one profile is returned by the
\* instance of the other, and a pbkdf2 envelope is read by both.
C7_FileDecidesKDF ==
    (last.op = "GetKey" /\ (On("StoreKey") \/ On("Import")) /\ last.was[1].auth = last.auth)
    => /\ last.err = ErrNil
       /\ last.key = << last.was[1].key >>
       /\ last.stages = Order

C7_Witness ==
    /\ last.op = "GetKey" /\ On("StoreKey") /\ last.was[1].auth = last.auth
    /\ last.was[1].inst = "standard" /\ last.inst = "light"
    /\ last.err = ErrNil
    /\ Exists(AddrB) /\ written[FileKey(KeysDir, AddrB)].by = "Import"

\* C8: every file StoreKey wrote holds version 3, aes-128-ctr, scrypt and the
\* parameters of the writing instance's profile (standard: n 262144, r 8, p 1,
\* dklen 32; light: n 4096, r 8, p 6, dklen 32); no step changes an instance,
\* and a StoreKey leaves the files of the other addresses as they are.
ProfileN(i) == IF i = "standard" THEN 262144 ELSE 4096

ProfileP(i) == IF i = "standard" THEN 1 ELSE 6

C8_State ==
    /\ \A i \in Instances :
          /\ ks[i].scryptN = ProfileN(i) /\ ks[i].scryptP = ProfileP(i)
          /\ ks[i].scryptR = 8 /\ ks[i].scryptDKLen = 32
    /\ \A f \in DOMAIN files :
          written[f].by = "StoreKey" =>
             /\ files[f].version = 3
             /\ files[f].crypto.cipher = "aes-128-ctr"
             /\ files[f].crypto.kdf = "scrypt"
             /\ files[f].crypto.kdfparams.n = ProfileN(written[f].inst)
             /\ files[f].crypto.kdfparams.r = 8
             /\ files[f].crypto.kdfparams.p = ProfileP(written[f].inst)
             /\ files[f].crypto.kdfparams.dklen = 32

C8_Step ==
    /\ ks' = ks
    /\ last'.op = "StoreKey" =>
          \A b \in Addresses \ { last'.addr } : File(files', b) = File(files, b)

C8_ProfileFixed == [](C8_State) /\ [][C8_Step]_vars

C8_Witness ==
    /\ last.op = "StoreKey" /\ last.inst = "light" /\ last.addr = AddrB
    /\ Exists(AddrA) /\ written[FileKey(KeysDir, AddrA)].by = "StoreKey"
    /\ written[FileKey(KeysDir, AddrA)].inst = "standard"
    /\ Exists(AddrB)

C10_Independent ==
    \A t \in Threads :
        /\ calls[t].touched \subseteq { FileKey(KeysDir, calls[t].addr) }
        /\ calls[t].pc = "done" => calls[t].same

C10_Witness ==
    /\ calls["t1"].pc = "done" /\ calls["t1"].op = "DeleteKey" /\ calls["t1"].err = ErrNil
    /\ calls["t2"].pc = "remove"

====
